---- MODULE Spec2Model ----
(***************************************************************************)
(* Human Enrichment Service API: the enrichment orchestrator               *)
(* (services.EnrichPerson, fetchData) and the request handlers that call   *)
(* it (handlers.CreatePerson, UpdatePerson, DeletePerson) over the GORM    *)
(* store.  Every HTTP request is served by its own goroutine, so a request *)
(* is a process; the handlers share nothing but the store.                 *)
(***************************************************************************)
EXTENDS Integers, Sequences, FiniteSets, TLC

\* ------------------------------------------------------------------ bounds

\* Number of HTTP requests served in one behaviour.
MaxReqs == 3

\* ------------------------------------------------------- program constants

\* http.StatusOK, the only status fetchData accepts.
StatusOK == 200
StatusCreated == 201
StatusNoContent == 204
StatusBadRequest == 400
StatusNotFound == 404
StatusInternalServerError == 500

\* ------------------------------------------------------------------- values

\* A Go pointer field: the nil pointer, or a pointer to a value.
Nil == <<>>
Ptr(v) == <<v>>

Reqs == 1..MaxReqs

\* The ids the table's sequence hands out, and the ids requests name (one of
\* them never handed out).
RowIds == {1}
PathIds == RowIds \cup {2}

Names == {"Anna", "Dmitriy"}
Surnames == {"Ivanov"}
Patronymics == {Nil, Ptr("Ivanovich")}

\* A request body that is not JSON.
BadJSON == [name |-> "", surname |-> "", patronymic |-> Nil, syntax |-> FALSE]

\* models.PersonInput as it arrives in a request body; "" is a missing (or
\* empty) name or surname, Nil a missing patronymic.
Bodies == [name : Names \cup {""}, surname : Surnames \cup {""},
           patronymic : Patronymics, syntax : {TRUE}] \cup {BadJSON}

\* The bodies of the requests that race each other.
RaceBodies == [name : Names, surname : Surnames \cup {""}, patronymic : {Nil}, syntax : {TRUE}]

\* models.Person before any field is set (the Go zero value).
ZeroPerson == [id |-> 0, name |-> "", surname |-> "", patronymic |-> Nil,
               age |-> Nil, gender |-> Nil, nationality |-> Nil]

\* ---------------------------------------------------------------- responses

\* What client.Get and the response body give for one lookup: a transport
\* error (neterr), else a status code, else a body that decodes (parses) into
\* the target structure or does not.
Transport(zero) == [neterr |-> TRUE, code |-> 0, parses |-> FALSE, data |-> zero]
BadStatus(zero) == [neterr |-> FALSE, code |-> StatusInternalServerError, parses |-> FALSE, data |-> zero]
Malformed(zero) == [neterr |-> FALSE, code |-> StatusOK, parses |-> FALSE, data |-> zero]
Decoded(d) == [neterr |-> FALSE, code |-> StatusOK, parses |-> TRUE, data |-> d]

Failures(zero) == {Transport(zero), BadStatus(zero), Malformed(zero)}

Country(c, pr) == [country_id |-> c, probability |-> pr]

\* The responses of the three lookup services (probabilities in percent).
AgeResponses == Failures(0) \cup {Decoded(0), Decoded(34), Decoded(42)}
GenderResponses == Failures("") \cup {Decoded(""), Decoded("male"), Decoded("female")}
NationalityResponses == Failures(<<>>) \cup
    {Decoded(<<>>), Decoded(<<Country("RU", 90)>>),
     Decoded(<<Country("US", 60), Country("GB", 40)>>),
     Decoded(<<Country("US", 40), Country("GB", 60)>>)}

\* The responses the handlers' requests meet: for each lookup a failure, the
\* empty answer and an answer with data; for gender every failure kind and
\* two different answers with data.
AgeResponsesCrud == {Transport(0), Decoded(0), Decoded(42)}
GenderResponsesCrud == Failures("") \cup {Decoded(""), Decoded("male"), Decoded("female")}
NationalityResponsesCrud == {Malformed(<<>>), Decoded(<<>>), Decoded(<<Country("RU", 90)>>)}

\* The responses the requests that race each other meet.
AgeResponsesRace == {Decoded(42)}
GenderResponsesRace == {BadStatus(""), Decoded("male")}
NationalityResponsesRace == {Malformed(<<>>), Decoded(<<Country("RU", 90)>>)}

\* A lookup that has not been answered (yet).
Pending(zero) == [neterr |-> FALSE, code |-> 0, parses |-> FALSE, data |-> zero]

NoRes == [age |-> Pending(0), gender |-> Pending(""), nationality |-> Pending(<<>>)]

Lookups == <<"age", "gender", "nationality">>

\* ---------------------------------------------------------------- fetchData

\* fetchData: the error it returns (TRUE) and what it decoded into target.
fetchData(resp) ==
    IF resp.neterr THEN [err |-> TRUE, kind |-> "transport"]
    ELSE IF resp.code # StatusOK THEN [err |-> TRUE, kind |-> "status"]
    ELSE IF ~resp.parses THEN [err |-> TRUE, kind |-> "parse"]
    ELSE [err |-> FALSE, kind |-> "ok"]

\* ------------------------------------------------------------- EnrichPerson

\* A variant that takes any decoded age, the zero of an absent field included.
EnrichAgeAnyValue(person, resp) ==
    IF fetchData(resp).err THEN person ELSE [person EXCEPT !.age = Ptr(resp.data)]

\* The age branch of EnrichPerson on the person record.
EnrichAge(person, resp) ==
    IF fetchData(resp).err THEN person
    ELSE IF resp.data # 0 THEN [person EXCEPT !.age = Ptr(resp.data)]
    ELSE person

\* A variant that resets the field when the lookup fails.
EnrichGenderClearing(person, resp) ==
    IF fetchData(resp).err THEN [person EXCEPT !.gender = Nil]
    ELSE IF resp.data # "" THEN [person EXCEPT !.gender = Ptr(resp.data)]
    ELSE person

\* A variant that takes the empty answer as the answer "no gender".
EnrichGenderResetOnEmpty(person, resp) ==
    IF fetchData(resp).err THEN person
    ELSE IF resp.data # "" THEN [person EXCEPT !.gender = Ptr(resp.data)]
    ELSE [person EXCEPT !.gender = Nil]

\* The gender branch of EnrichPerson.
EnrichGender(person, resp) ==
    IF fetchData(resp).err THEN person
    ELSE IF resp.data # "" THEN [person EXCEPT !.gender = Ptr(resp.data)]
    ELSE person

\* The index of the most probable country of a non-empty response.
MostProbable(data) ==
    CHOOSE i \in 1..Len(data) : \A j \in 1..Len(data) : data[j].probability <= data[i].probability

\* A variant that takes the most probable country instead of the first one.
EnrichNationalityMostProbable(person, resp) ==
    IF fetchData(resp).err THEN person
    ELSE IF Len(resp.data) > 0
         THEN [person EXCEPT !.nationality = Ptr(resp.data[MostProbable(resp.data)].country_id)]
    ELSE person

\* A variant that sets the nationality only of a person whose age is known.
EnrichNationalityNeedsAge(person, resp) ==
    IF fetchData(resp).err THEN person
    ELSE IF Len(resp.data) > 0 /\ person.age # Nil
         THEN [person EXCEPT !.nationality = Ptr(resp.data[1].country_id)]
    ELSE person

\* The nationality branch of EnrichPerson.
EnrichNationality(person, resp) ==
    IF fetchData(resp).err THEN person
    ELSE IF Len(resp.data) > 0 THEN [person EXCEPT !.nationality = Ptr(resp.data[1].country_id)]
    ELSE person

\* The diagnostics a lookup adds to the log stream above debug level.
LookupLog(log, lookup, resp) ==
    IF fetchData(resp).err THEN Append(log, [level |-> "warn", lookup |-> lookup]) ELSE log

\* A variant that gives up at the first lookup that fails.
AfterLookupAbort(at, resp) ==
    IF fetchData(resp).err THEN "return"
    ELSE CASE at = "age_wait" -> "gender_wait"
           [] at = "gender_wait" -> "nationality_wait"
           [] at = "nationality_wait" -> "return"

\* Where EnrichPerson goes after the lookup at `at` answered with resp.
AfterLookup(at, resp) ==
    CASE at = "age_wait" -> "gender_wait"
      [] at = "gender_wait" -> "nationality_wait"
      [] at = "nationality_wait" -> "return"

\* A variant that reports an error when no lookup succeeded.
EnrichResultAllFailed(res) ==
    IF \A k \in {"age", "gender", "nationality"} : fetchData(res[k]).err THEN "err" ELSE "nil"

\* The error EnrichPerson returns to its caller given what the lookups returned.
EnrichResult(res) == "nil"

VARIABLES
    store,     \* the people table: a set of Person rows, at most one per id
    nextId,    \* the table's id sequence
    pc,        \* where each request's goroutine is
    op,        \* the handler serving the request
    reqId,     \* the :id path parameter
    body,      \* the request's body
    person,    \* the handler's Person (person / existingPerson)
    entry,     \* the Person as EnrichPerson received it
    res,       \* the response each lookup of this invocation got
    calls,     \* the lookups issued by this invocation, in order
    inflight,  \* the lookups issued and not yet answered
    log,       \* the warn/error diagnostics of the request
    ret,       \* what EnrichPerson returned
    status,    \* the HTTP status answered (0: none yet)
    dbErr,     \* whether a store operation of the request failed
    lastWrite  \* per id, the request whose write to the row landed last (0: none)

vars == <<store, nextId, pc, op, reqId, body, person, entry, res, calls, inflight, log, ret,
          status, dbErr, lastWrite>>

Row(s, id) == {row \in s : row.id = id}

\* ------------------------------------------------------------------- store

\* db.DB.Create: inserts the row under the next id of the sequence.
Create(s, n, p) == s \cup {[p EXCEPT !.id = n]}

\* A variant that writes only the columns whose field is set (as db.DB.Updates
\* of a struct does), so that the columns of a nil field keep what they held.
SaveNonZero(s, p) ==
    IF Row(s, p.id) = {} THEN s \cup {p}
    ELSE LET old == CHOOSE row \in Row(s, p.id) : TRUE
             keep(f) == IF p[f] = Nil THEN old[f] ELSE p[f]
         IN  (s \ {old}) \cup {[p EXCEPT !.patronymic = keep("patronymic"), !.age = keep("age"),
                                          !.gender = keep("gender"),
                                          !.nationality = keep("nationality")]}

\* db.DB.Save of a record that has a primary key: writes every column of the
\* row with that key, inserting the row when there is none.
Save(s, p) == (s \ Row(s, p.id)) \cup {p}

\* db.DB.Delete of a record that has a primary key.
Delete(s, p) == s \ Row(s, p.id)

\* ------------------------------------------------------------------ binding

\* A variant of the binding without the required tags: only a body that is
\* not JSON is rejected.
ShouldBindJSONSyntaxOnly(b) == ~b.syntax

\* c.ShouldBindJSON into models.PersonInput: the error it returns.
ShouldBindJSON(b) == ~b.syntax \/ b.name = "" \/ b.surname = ""

\* A variant that forgets the stored enrichment, so that the saved record
\* holds only what the lookups of this update return.
MergeInputFresh(existing, in) ==
    [existing EXCEPT !.name = in.name, !.surname = in.surname,
                     !.patronymic = IF in.patronymic # Nil THEN in.patronymic ELSE @,
                     !.age = Nil, !.gender = Nil, !.nationality = Nil]

\* UpdatePerson's merge of the bound input into the stored person.
MergeInput(existing, in) ==
    LET p1 == IF in.name # "" THEN [existing EXCEPT !.name = in.name] ELSE existing
        p2 == IF in.surname # "" THEN [p1 EXCEPT !.surname = in.surname] ELSE p1
    IN  IF in.patronymic # Nil THEN [p2 EXCEPT !.patronymic = in.patronymic] ELSE p2

\* CreatePerson's construction of the person from the bound input.
NewPerson(in) ==
    [ZeroPerson EXCEPT !.name = in.name, !.surname = in.surname, !.patronymic = in.patronymic]

Warn(what) == [level |-> "warn", lookup |-> what]
Error(what) == [level |-> "error", lookup |-> what]

\* A handler's frame: where it is, its Person, the status it answered, whether
\* a store operation failed, and its diagnostics.
Frame(at, p, code, failed, diag) ==
    [pc |-> at, person |-> p, status |-> code, dbErr |-> failed, log |-> diag]

\* CreatePerson up to the call of EnrichPerson: the binding of the body and
\* the construction of the person.
CreatePersonBind(b) ==
    IF ShouldBindJSON(b)
    THEN Frame("done", ZeroPerson, StatusBadRequest, FALSE, <<Warn("input")>>)
    ELSE Frame("enrich", NewPerson(b), 0, FALSE, <<>>)

\* A variant that re-enriches only when the name changes.
UpdatePersonReadSkipUnchanged(s, id, b, dbok) ==
    IF ~dbok THEN Frame("done", ZeroPerson, StatusInternalServerError, TRUE, <<Error("first")>>)
    ELSE IF Row(s, id) = {} THEN Frame("done", ZeroPerson, StatusNotFound, FALSE, <<Warn("id")>>)
    ELSE LET existingPerson == CHOOSE row \in Row(s, id) : TRUE
         IN  IF ShouldBindJSON(b)
             THEN Frame("done", existingPerson, StatusBadRequest, FALSE, <<Warn("input")>>)
             ELSE Frame(IF b.name = existingPerson.name THEN "return" ELSE "enrich",
                        MergeInput(existingPerson, b), 0, FALSE, <<>>)

\* UpdatePerson up to the call of EnrichPerson: db.DB.First, the binding of
\* the body and the merge of the input.
UpdatePersonRead(s, id, b, dbok) ==
    IF ~dbok THEN Frame("done", ZeroPerson, StatusInternalServerError, TRUE, <<Error("first")>>)
    ELSE IF Row(s, id) = {} THEN Frame("done", ZeroPerson, StatusNotFound, FALSE, <<Warn("id")>>)
    ELSE LET existingPerson == CHOOSE row \in Row(s, id) : TRUE
         IN  IF ShouldBindJSON(b)
             THEN Frame("done", existingPerson, StatusBadRequest, FALSE, <<Warn("input")>>)
             ELSE Frame("enrich", MergeInput(existingPerson, b), 0, FALSE, <<>>)

\* DeletePerson up to db.DB.Delete: db.DB.First of the row.
DeletePersonRead(s, id, dbok) ==
    IF ~dbok THEN Frame("done", ZeroPerson, StatusInternalServerError, TRUE, <<Error("first")>>)
    ELSE IF Row(s, id) = {} THEN Frame("done", ZeroPerson, StatusNotFound, FALSE, <<Warn("id")>>)
    ELSE Frame("delete", CHOOSE row \in Row(s, id) : TRUE, 0, FALSE, <<>>)

\* A variant that answers a server error when a lookup of the request failed.
FinishStatusStrict(okCode, diag, dbok) ==
    IF dbok /\ \A i \in DOMAIN diag : diag[i].level # "warn"
    THEN okCode ELSE StatusInternalServerError

\* The status a handler answers after its write to the store.
FinishStatus(okCode, diag, dbok) == IF dbok THEN okCode ELSE StatusInternalServerError

\* The handlers' check of what EnrichPerson returned.
EnrichChecked(diag, err) == IF err # "nil" THEN Append(diag, Error("enrich")) ELSE diag

\* -------------------------------------------------------------------- init

Init ==
    /\ store = {}
    /\ nextId = 1
    /\ pc = [r \in Reqs |-> "idle"]
    /\ op = [r \in Reqs |-> "none"]
    /\ reqId = [r \in Reqs |-> 0]
    /\ body = [r \in Reqs |-> BadJSON]
    /\ person = [r \in Reqs |-> ZeroPerson]
    /\ entry = [r \in Reqs |-> ZeroPerson]
    /\ res = [r \in Reqs |-> NoRes]
    /\ calls = [r \in Reqs |-> <<>>]
    /\ inflight = [r \in Reqs |-> {}]
    /\ log = [r \in Reqs |-> <<>>]
    /\ ret = [r \in Reqs |-> "none"]
    /\ status = [r \in Reqs |-> 0]
    /\ dbErr = [r \in Reqs |-> FALSE]
    /\ lastWrite = [i \in RowIds |-> 0]

\* Requests are numbered in the order they arrive; under `serial` a request
\* arrives only when no other is being served.
Arrives(r, serial) ==
    /\ pc[r] = "idle"
    /\ \A q \in Reqs : q < r => pc[q] # "idle"
    /\ serial => \A q \in Reqs : pc[q] \in {"idle", "done"}

\* The frame of a request that has been answered is gone when the next
\* request arrives.
Gone(f, zero) == [q \in Reqs |-> IF pc[q] = "done" THEN zero ELSE f[q]]

\* Request r arrives at handler o with path parameter id and body b and runs
\* up to its first suspension point, which leaves it with frame f.
Begin(r, o, id, b, f) ==
    /\ pc' = [pc EXCEPT ![r] = f.pc]
    /\ op' = [Gone(op, "none") EXCEPT ![r] = o]
    /\ reqId' = [Gone(reqId, 0) EXCEPT ![r] = id]
    /\ body' = [Gone(body, BadJSON) EXCEPT ![r] = b]
    /\ person' = [Gone(person, ZeroPerson) EXCEPT ![r] = f.person]
    /\ status' = [Gone(status, 0) EXCEPT ![r] = f.status]
    /\ dbErr' = [Gone(dbErr, FALSE) EXCEPT ![r] = f.dbErr]
    /\ log' = [Gone(log, <<>>) EXCEPT ![r] = f.log]
    /\ entry' = Gone(entry, ZeroPerson)
    /\ res' = Gone(res, NoRes)
    /\ calls' = Gone(calls, <<>>)
    /\ inflight' = Gone(inflight, {})
    /\ ret' = Gone(ret, "none")
    /\ lastWrite' = [i \in RowIds |->
                        IF lastWrite[i] # 0 /\ pc[lastWrite[i]] = "done" THEN 0 ELSE lastWrite[i]]
    /\ UNCHANGED <<store, nextId>>

\* ------------------------------------------------------------ CreatePerson

CreateBegin(r, serial, b) ==
    /\ Arrives(r, serial)
    /\ nextId \in RowIds
    /\ \A q \in Reqs : op[q] = "create" => pc[q] = "done"
    /\ Begin(r, "create", 0, b, CreatePersonBind(b))

\* CreatePerson from the return of EnrichPerson: db.DB.Create and the answer.
CreateFinish(r, dbok) ==
    /\ pc[r] = "return" /\ op[r] = "create"
    /\ pc' = [pc EXCEPT ![r] = "done"]
    /\ log' = [log EXCEPT ![r] = IF dbok THEN EnrichChecked(@, ret[r])
                                 ELSE Append(EnrichChecked(@, ret[r]), Error("create"))]
    /\ dbErr' = [dbErr EXCEPT ![r] = ~dbok]
    /\ status' = [status EXCEPT ![r] = FinishStatus(StatusCreated, log[r], dbok)]
    /\ IF dbok
       THEN /\ store' = Create(store, nextId, person[r])
            /\ person' = [person EXCEPT ![r].id = nextId]
            /\ nextId' = nextId + 1
            /\ lastWrite' = [lastWrite EXCEPT ![nextId] = r]
       ELSE UNCHANGED <<store, person, nextId, lastWrite>>
    /\ UNCHANGED <<op, reqId, body, entry, res, calls, inflight, ret>>

\* ------------------------------------------------------------ UpdatePerson

UpdateBegin(r, serial, id, b, dbok) ==
    /\ Arrives(r, serial)
    /\ Begin(r, "update", id, b, UpdatePersonRead(store, id, b, dbok))

\* UpdatePerson from the return of EnrichPerson: db.DB.Save and the answer.
UpdateFinish(r, dbok) ==
    /\ pc[r] = "return" /\ op[r] = "update"
    /\ pc' = [pc EXCEPT ![r] = "done"]
    /\ log' = [log EXCEPT ![r] = IF dbok THEN EnrichChecked(@, ret[r])
                                 ELSE Append(EnrichChecked(@, ret[r]), Error("save"))]
    /\ dbErr' = [dbErr EXCEPT ![r] = ~dbok]
    /\ status' = [status EXCEPT ![r] = FinishStatus(StatusOK, log[r], dbok)]
    /\ IF dbok
       THEN /\ store' = Save(store, person[r])
            /\ lastWrite' = [lastWrite EXCEPT ![person[r].id] = r]
       ELSE UNCHANGED <<store, lastWrite>>
    /\ UNCHANGED <<nextId, op, reqId, body, person, entry, res, calls, inflight, ret>>

\* ------------------------------------------------------------ DeletePerson

DeleteBegin(r, serial, id, dbok) ==
    /\ Arrives(r, serial)
    /\ Begin(r, "delete", id, BadJSON, DeletePersonRead(store, id, dbok))

\* DeletePerson's db.DB.Delete and the answer.
DeleteFinish(r, dbok) ==
    /\ pc[r] = "delete"
    /\ pc' = [pc EXCEPT ![r] = "done"]
    /\ log' = [log EXCEPT ![r] = IF dbok THEN @ ELSE Append(@, Error("delete"))]
    /\ dbErr' = [dbErr EXCEPT ![r] = ~dbok]
    /\ status' = [status EXCEPT ![r] = FinishStatus(StatusNoContent, log[r], dbok)]
    /\ IF dbok
       THEN /\ store' = Delete(store, person[r])
            /\ lastWrite' = [lastWrite EXCEPT ![person[r].id] = r]
       ELSE UNCHANGED <<store, lastWrite>>
    /\ UNCHANGED <<nextId, op, reqId, body, person, entry, res, calls, inflight, ret>>

\* ------------------------------------------------------------ EnrichPerson

\* The call of EnrichPerson up to the first client.Get being sent.
EnrichEnter(r) ==
    /\ pc[r] = "enrich"
    /\ pc' = [pc EXCEPT ![r] = "age_wait"]
    /\ entry' = [entry EXCEPT ![r] = person[r]]
    /\ calls' = [calls EXCEPT ![r] = Append(@, "age")]
    /\ inflight' = [inflight EXCEPT ![r] = @ \cup {"age"}]
    /\ UNCHANGED <<store, nextId, op, reqId, body, person, res, log, ret, status, dbErr, lastWrite>>

\* The lookup `lookup` is answered by resp while EnrichPerson waits at `at`:
\* the branch `enriched` of EnrichPerson runs, then the next lookup is sent
\* or EnrichPerson returns.
Answered(r, at, lookup, resp, enriched) ==
    /\ pc[r] = at
    /\ res' = [res EXCEPT ![r][lookup] = resp]
    /\ person' = [person EXCEPT ![r] = enriched]
    /\ log' = [log EXCEPT ![r] = LookupLog(@, lookup, resp)]
    /\ LET to == AfterLookup(at, resp)
           next == IF to = "gender_wait" THEN "gender" ELSE "nationality"
       IN  /\ pc' = [pc EXCEPT ![r] = to]
           /\ IF to = "return"
              THEN /\ ret' = [ret EXCEPT ![r] = EnrichResult(res'[r])]
                   /\ inflight' = [inflight EXCEPT ![r] = @ \ {lookup}]
                   /\ UNCHANGED calls
              ELSE /\ calls' = [calls EXCEPT ![r] = Append(@, next)]
                   /\ inflight' = [inflight EXCEPT ![r] = (@ \ {lookup}) \cup {next}]
                   /\ UNCHANGED ret
    /\ UNCHANGED <<store, nextId, op, reqId, body, entry, status, dbErr, lastWrite>>

AgeAnswered(r, resp) == Answered(r, "age_wait", "age", resp, EnrichAge(person[r], resp))

GenderAnswered(r, resp) ==
    Answered(r, "gender_wait", "gender", resp, EnrichGender(person[r], resp))

NationalityAnswered(r, resp) ==
    Answered(r, "nationality_wait", "nationality", resp, EnrichNationality(person[r], resp))

\* The caller of EnrichPerson calls it once more on the person it got back:
\* the lookups, the diagnostics and the result are those of the new call.
EnrichAgain(r) ==
    /\ pc[r] = "return"
    /\ op[r] \in {"direct", "again"}
    /\ pc' = [pc EXCEPT ![r] = "enrich"]
    /\ op' = [op EXCEPT ![r] = "again"]
    /\ res' = [res EXCEPT ![r] = NoRes]
    /\ calls' = [calls EXCEPT ![r] = <<>>]
    /\ log' = [log EXCEPT ![r] = <<>>]
    /\ ret' = [ret EXCEPT ![r] = "none"]
    /\ UNCHANGED <<store, nextId, reqId, body, person, entry, inflight, status, dbErr, lastWrite>>

\* -------------------------------------------------------------------- specs

\* The requests served one at a time.
Next ==
    \E r \in Reqs :
        \/ \E b \in Bodies : CreateBegin(r, TRUE, b)
        \/ \E dbok \in BOOLEAN : CreateFinish(r, dbok)
        \/ \E id \in PathIds, b \in Bodies, dbok \in BOOLEAN : UpdateBegin(r, TRUE, id, b, dbok)
        \/ \E dbok \in BOOLEAN : UpdateFinish(r, dbok)
        \/ \E id \in PathIds, dbok \in BOOLEAN : DeleteBegin(r, TRUE, id, dbok)
        \/ \E dbok \in BOOLEAN : DeleteFinish(r, dbok)
        \/ EnrichEnter(r)
        \/ \E resp \in AgeResponsesCrud : AgeAnswered(r, resp)
        \/ \E resp \in GenderResponsesCrud : GenderAnswered(r, resp)
        \/ \E resp \in NationalityResponsesCrud : NationalityAnswered(r, resp)

Spec == Init /\ [][Next]_vars

\* The requests served concurrently, each by its own goroutine.
RaceNext ==
    \E r \in Reqs :
        \/ \E b \in RaceBodies : CreateBegin(r, FALSE, b)
        \/ \E dbok \in BOOLEAN : CreateFinish(r, dbok)
        \/ \E id \in PathIds, b \in RaceBodies, dbok \in BOOLEAN : UpdateBegin(r, FALSE, id, b, dbok)
        \/ \E dbok \in BOOLEAN : UpdateFinish(r, dbok)
        \/ \E id \in PathIds, dbok \in BOOLEAN : DeleteBegin(r, FALSE, id, dbok)
        \/ \E dbok \in BOOLEAN : DeleteFinish(r, dbok)
        \/ EnrichEnter(r)
        \/ \E resp \in AgeResponsesRace : AgeAnswered(r, resp)
        \/ \E resp \in GenderResponsesRace : GenderAnswered(r, resp)
        \/ \E resp \in NationalityResponsesRace : NationalityAnswered(r, resp)

RaceSpec == Init /\ [][RaceNext]_vars

\* EnrichPerson called on a Person of any content, under every response.
EnrichArgs ==
    [id : {0, 1}, name : Names, surname : Surnames, patronymic : Patronymics,
     age : {Nil, Ptr(42)}, gender : {Nil, Ptr("male")}, nationality : {Nil, Ptr("RU")}]

EnrichInit ==
    /\ store = {}
    /\ nextId = 1
    /\ pc = [r \in Reqs |-> IF r = 1 THEN "enrich" ELSE "idle"]
    /\ op = [r \in Reqs |-> IF r = 1 THEN "direct" ELSE "none"]
    /\ reqId = [r \in Reqs |-> 0]
    /\ body = [r \in Reqs |-> BadJSON]
    /\ \E arg \in EnrichArgs : person = [r \in Reqs |-> IF r = 1 THEN arg ELSE ZeroPerson]
    /\ entry = [r \in Reqs |-> ZeroPerson]
    /\ res = [r \in Reqs |-> NoRes]
    /\ calls = [r \in Reqs |-> <<>>]
    /\ inflight = [r \in Reqs |-> {}]
    /\ log = [r \in Reqs |-> <<>>]
    /\ ret = [r \in Reqs |-> "none"]
    /\ status = [r \in Reqs |-> 0]
    /\ dbErr = [r \in Reqs |-> FALSE]
    /\ lastWrite = [i \in RowIds |-> 0]

EnrichNext ==
    \E r \in Reqs :
        \/ EnrichEnter(r)
        \/ \E resp \in AgeResponses : AgeAnswered(r, resp)
        \/ \E resp \in GenderResponses : GenderAnswered(r, resp)
        \/ \E resp \in NationalityResponses : NationalityAnswered(r, resp)

EnrichSpec == EnrichInit /\ [][EnrichNext]_vars

\* EnrichPerson called any number of times in a row on the same Person.
RepeatNext ==
    \/ EnrichNext
    \/ \E r \in Reqs : EnrichAgain(r)

RepeatSpec == EnrichInit /\ [][RepeatNext]_vars

\* ------------------------------------------------------------------ claims

Fields == {"age", "gender", "nationality"}

\* A lookup has been answered; it failed (transport error, non-200 status or
\* a body that does not parse); it succeeded.
WasAnswered(resp) == resp.neterr \/ resp.code # 0
LookupFailed(resp) == WasAnswered(resp) /\ (resp.neterr \/ resp.code # 200 \/ ~resp.parses)
LookupSucceeded(resp) == ~resp.neterr /\ resp.code = 200 /\ resp.parses

\* EnrichPerson has been entered by request r; it has returned.
Enriching(r) == pc[r] \in {"age_wait", "gender_wait", "nationality_wait", "return"}
Returned(r) == pc[r] = "return"

Warnings(r, k) == {i \in DOMAIN log[r] : log[r][i] = [level |-> "warn", lookup |-> k]}

IsPrefix(s, t) == Len(s) <= Len(t) /\ \A i \in 1..Len(s) : s[i] = t[i]

\* C2: a lookup that fails, whatever the kind of failure, leaves its field at
\* the value the person had when EnrichPerson was called, records exactly one
\* warning and is followed by the next lookup; id, name, surname and
\* patronymic are never modified by EnrichPerson.
C2_FailureLeavesField ==
    \A r \in Reqs : Enriching(r) =>
        /\ person[r].id = entry[r].id
        /\ person[r].name = entry[r].name
        /\ person[r].surname = entry[r].surname
        /\ person[r].patronymic = entry[r].patronymic
        /\ \A k \in Fields : LookupFailed(res[r][k]) =>
              /\ person[r][k] = entry[r][k]
              /\ Cardinality(Warnings(r, k)) = 1
              /\ k = "age" => Len(calls[r]) >= 2 /\ calls[r][2] = "gender"
              /\ k = "gender" => Len(calls[r]) >= 3 /\ calls[r][3] = "nationality"
              /\ k = "nationality" => Returned(r)

\* A person who had a gender keeps it through a non-200 answer of the gender
\* lookup, a transport error of the age lookup and a malformed nationality body.
C2_Witness ==
    \E r \in Reqs :
        /\ Returned(r)
        /\ entry[r].gender = Ptr("male") /\ person[r].gender = Ptr("male")
        /\ entry[r].age = Ptr(42) /\ person[r].age = Ptr(42)
        /\ entry[r].nationality = Nil /\ person[r].nationality = Nil
        /\ res[r].gender = BadStatus("")
        /\ res[r].age = Transport(0)
        /\ res[r].nationality = Malformed(<<>>)
        /\ Len(log[r]) = 3

\* C3: EnrichPerson returns a nil error under every combination of the
\* outcomes of the three lookups.
C3_NeverReportsError ==
    \A r \in Reqs :
        /\ ret[r] \in {"none", "nil"}
        /\ Returned(r) => ret[r] = "nil"

\* All three lookups failed and EnrichPerson returned nil.
C3_Witness ==
    \E r \in Reqs :
        /\ Returned(r) /\ ret[r] = "nil"
        /\ \A k \in Fields : LookupFailed(res[r][k])

\* The value a lookup alone gives to its field, for a field that was absent.
FieldFrom(k, resp) ==
    IF ~LookupSucceeded(resp) THEN Nil
    ELSE CASE k = "age" -> IF resp.data # 0 THEN Ptr(resp.data) ELSE Nil
           [] k = "gender" -> IF resp.data # "" THEN Ptr(resp.data) ELSE Nil
           [] k = "nationality" -> IF resp.data # <<>> THEN Ptr(resp.data[1].country_id) ELSE Nil

\* C4: for a person entering EnrichPerson without age, gender and
\* nationality, a failed lookup leaves its field absent, every lookup is
\* attempted, and each field's final value is the one its own lookup's
\* outcome gives, whatever the other two outcomes are.
C4_LookupsIndependent ==
    \A r \in Reqs :
        (Returned(r) /\ \A k \in Fields : entry[r][k] = Nil) =>
            \A k \in Fields :
                /\ \E i \in DOMAIN calls[r] : calls[r][i] = k
                /\ WasAnswered(res[r][k])
                /\ LookupFailed(res[r][k]) => person[r][k] = Nil
                /\ person[r][k] = FieldFrom(k, res[r][k])

\* The age lookup fails, and the two later lookups still give their values.
C4_Witness ==
    \E r \in Reqs :
        /\ Returned(r) /\ \A k \in Fields : entry[r][k] = Nil
        /\ LookupFailed(res[r].age) /\ person[r].age = Nil
        /\ person[r].gender = Ptr("female")
        /\ person[r].nationality = Ptr("US")

\* C5: an invocation of EnrichPerson issues the lookups age, gender,
\* nationality in that order, one at a time, each answered before the next is
\* issued, none repeated or skipped, and returns only when all three have
\* been answered.
C5_ThreeLookupsInOrder ==
    \A r \in Reqs : Enriching(r) =>
        /\ IsPrefix(calls[r], Lookups)
        /\ Cardinality(inflight[r]) <= 1
        /\ \A i \in DOMAIN calls[r] :
              \/ WasAnswered(res[r][calls[r][i]]) /\ calls[r][i] \notin inflight[r]
              \/ i = Len(calls[r]) /\ inflight[r] = {calls[r][i]} /\ ~WasAnswered(res[r][calls[r][i]])
        /\ Returned(r) => calls[r] = Lookups /\ inflight[r] = {}
                          /\ \A k \in Fields : WasAnswered(res[r][k])
        /\ ~Returned(r) => inflight[r] # {}

\* EnrichPerson returned after three lookups of which the first failed.
C5_Witness ==
    \E r \in Reqs :
        /\ Returned(r) /\ calls[r] = <<"age", "gender", "nationality">>
        /\ res[r].age = Transport(0)
        /\ LookupSucceeded(res[r].gender)

\* C10: for a person entering EnrichPerson without enrichment fields, age is
\* set (to the returned integer) iff the age lookup succeeds with a non-zero
\* age, gender iff the gender lookup succeeds with a non-empty string,
\* nationality iff the nationality lookup succeeds with a non-empty array;
\* age 42, a gender transport error and [RU] give age 42, no gender and "RU".
C10_SuccessMapping ==
    \A r \in Reqs :
        (Returned(r) /\ \A k \in Fields : entry[r][k] = Nil) =>
            /\ person[r].age # Nil <=> (LookupSucceeded(res[r].age) /\ res[r].age.data # 0)
            /\ person[r].age # Nil => person[r].age = Ptr(res[r].age.data)
            /\ res[r].age = Decoded(34) => person[r].age = Ptr(34)
            /\ res[r].age = Decoded(0) => person[r].age = Nil
            /\ person[r].gender # Nil <=>
                   (LookupSucceeded(res[r].gender) /\ res[r].gender.data # "")
            /\ person[r].nationality # Nil <=>
                   (LookupSucceeded(res[r].nationality) /\ Len(res[r].nationality.data) > 0)
            /\ (/\ res[r].age = Decoded(42)
                /\ res[r].gender = Transport("")
                /\ res[r].nationality = Decoded(<<Country("RU", 90)>>))
               => person[r] = [entry[r] EXCEPT !.age = Ptr(42), !.nationality = Ptr("RU")]

\* The scenario of name "Dmitriy": age 42, the gender lookup timing out, [RU].
C10_Witness ==
    \E r \in Reqs :
        /\ Returned(r) /\ entry[r].name = "Dmitriy"
        /\ \A k \in Fields : entry[r][k] = Nil
        /\ res[r].age = Decoded(42)
        /\ res[r].gender = Transport("")
        /\ res[r].nationality = Decoded(<<Country("RU", 90)>>)
        /\ person[r].age = Ptr(42) /\ person[r].gender = Nil /\ person[r].nationality = Ptr("RU")

\* Request r is an UpdatePerson that has been answered; its db.DB.Save step.
Updated(r) == op[r] = "update" /\ pc[r] = "done"
Saves(r) == op[r] = "update" /\ pc[r] = "return" /\ pc'[r] = "done" /\ status'[r] = 200

\* C1 as stated: when UpdatePerson re-enriches a stored person whose field
\* (gender, age or nationality) is set and the lookup of that field fails, the
\* record the update saves has the field absent.
C1_FailureOverwritesStored ==
    [][\A r \in Reqs, k \in Fields :
          (/\ Saves(r)
           /\ LookupFailed(res[r][k])
           /\ \E row \in Row(store, reqId[r]) : row[k] # Nil)
          => \A row \in Row(store', reqId[r]) : row[k] = Nil]_vars

\* C1 as the code has it: when UpdatePerson re-enriches a stored person whose
\* field is set and the lookup of that field fails, the record the update
\* saves keeps the stored value of the field.
C1_FailureKeepsStored ==
    [][\A r \in Reqs, k \in Fields :
          (/\ Saves(r)
           /\ LookupFailed(res[r][k])
           /\ \E row \in Row(store, reqId[r]) : row[k] # Nil)
          => /\ Row(store', reqId[r]) # {}
             /\ \A row \in Row(store', reqId[r]) :
                    \A old \in Row(store, reqId[r]) : row[k] = old[k]]_vars

\* An update of a person stored with gender "male" whose gender lookup got a
\* non-200 answer has saved the person with gender "male".
C1_Witness ==
    \E r \in Reqs :
        /\ Updated(r) /\ status[r] = 200
        /\ entry[r].gender = Ptr("male")
        /\ res[r].gender = BadStatus("")
        /\ \E row \in Row(store, reqId[r]) : row.gender = Ptr("male")

\* C6: an UpdatePerson with a valid body on an existing id always runs the
\* three lookups before it saves, whatever the stored record holds and whether
\* or not the name changes, and each lookup that succeeds with data puts its
\* value into the saved record.
C6_UpdateAlwaysReEnriches ==
    \A r \in Reqs :
        /\ (op[r] = "update" /\ pc[r] \notin {"idle", "done"}) => pc[r] = "enrich" \/ Enriching(r)
        /\ (Updated(r) /\ status[r] \notin {400, 404} /\ ~dbErr[r]) =>
              /\ status[r] = 200
              /\ calls[r] = Lookups
              /\ Row(store, reqId[r]) # {}
              /\ \A k \in Fields :
                    /\ WasAnswered(res[r][k])
                    /\ FieldFrom(k, res[r][k]) # Nil =>
                          \A row \in Row(store, reqId[r]) : row[k] = FieldFrom(k, res[r][k])

\* An update that leaves the name as it is replaces the stored gender "male"
\* by the "female" its gender lookup returned.
C6_Witness ==
    \E r \in Reqs :
        /\ Updated(r) /\ status[r] = 200
        /\ entry[r].gender = Ptr("male") /\ entry[r].age = Ptr(42)
        /\ res[r].gender = Decoded("female")
        /\ calls[r] = <<"age", "gender", "nationality">>
        /\ \E row \in Row(store, reqId[r]) : row.gender = Ptr("female") /\ row.age = Ptr(42)

\* C7: under every combination of lookup outcomes, a CreatePerson with valid
\* input stores the record and answers 201 and an UpdatePerson with valid
\* input on an existing id saves the record and answers 200, unless a store
\* operation fails; a 500 is only ever answered after a store failure.
C7_EnrichmentNeverBlocks ==
    \A r \in Reqs :
        /\ status[r] = 500 => dbErr[r]
        /\ (pc[r] = "done" /\ op[r] \in {"create", "update"} /\ status[r] \notin {400, 404}) =>
              \/ status[r] = 500 /\ dbErr[r]
              \/ /\ status[r] = (IF op[r] = "create" THEN 201 ELSE 200)
                 /\ ~dbErr[r]
                 /\ person[r] \in store
                 /\ person[r].id # 0

\* A create whose three lookups all failed is stored and answered 201.
C7_Witness ==
    \E r \in Reqs :
        /\ op[r] = "create" /\ pc[r] = "done" /\ status[r] = 201
        /\ \A k \in Fields : LookupFailed(res[r][k])
        /\ person[r] \in store

\* C9 as stated: an UpdatePerson on an existing id is accepted (200) for
\* every subset of name, surname and patronymic present in its body, the
\* fields present taking the new value and the others keeping the stored one.
C9_OnlyProvidedFieldsUpdated ==
    [][\A r \in Reqs, id \in PathIds, b \in Bodies :
          (/\ UpdateBegin(r, TRUE, id, b, TRUE)
           /\ b.syntax
           /\ Row(store, id) # {})
          => /\ status'[r] # 400
             /\ \A old \in Row(store, id) :
                   /\ person'[r].name = (IF b.name # "" THEN b.name ELSE old.name)
                   /\ person'[r].surname = (IF b.surname # "" THEN b.surname ELSE old.surname)
                   /\ person'[r].patronymic =
                          (IF b.patronymic # Nil THEN b.patronymic ELSE old.patronymic)]_vars

\* C8: when two UpdatePerson requests for the same id have both been
\* answered 200, the stored row is, field for field, the record of the one
\* whose db.DB.Save landed last.
C8_LastWriteWins ==
    \A r1, r2 \in Reqs :
        (/\ r1 # r2
         /\ Updated(r1) /\ Updated(r2)
         /\ status[r1] = 200 /\ status[r2] = 200
         /\ reqId[r1] = reqId[r2]
         /\ lastWrite[reqId[r1]] = r2)
        => Row(store, reqId[r1]) = {person[r2]}

\* Two overlapping updates: the one that saved first had set the gender, the
\* one that saved last had read the row before that and saves it without.
C8_Witness ==
    \E r1, r2 \in Reqs :
        /\ r1 # r2
        /\ Updated(r1) /\ Updated(r2)
        /\ status[r1] = 200 /\ status[r2] = 200
        /\ reqId[r1] = reqId[r2]
        /\ lastWrite[reqId[r1]] = r2
        /\ entry[r1].gender = Nil /\ person[r1].gender = Ptr("male")
        /\ entry[r2].gender = Nil /\ person[r2].gender = Nil
        /\ person[r1].name # person[r2].name
        /\ Row(store, reqId[r1]) = {person[r2]}

\* C11: whenever the nationality lookup succeeds with a non-empty array, the
\* nationality EnrichPerson leaves in the person is the country code of the
\* first element, whatever the probabilities and whatever the person held:
\* [US 60, GB 40] gives "US" and so does [US 40, GB 60].
C11_FirstElementWins ==
    \A r \in Reqs :
        (/\ Returned(r)
         /\ LookupSucceeded(res[r].nationality)
         /\ Len(res[r].nationality.data) > 0)
        => /\ person[r].nationality = Ptr(res[r].nationality.data[1].country_id)
           /\ res[r].nationality.data[1].country_id = "US" => person[r].nationality = Ptr("US")

\* The less probable country comes first in the answer and is the one taken,
\* replacing the nationality the person came with.
C11_Witness ==
    \E r \in Reqs :
        /\ Returned(r)
        /\ entry[r].nationality = Ptr("RU")
        /\ res[r].nationality = Decoded(<<Country("US", 40), Country("GB", 60)>>)
        /\ person[r].nationality = Ptr("US")

\* The three lookups of request r all succeeded with empty data.
EmptyAnswers(r) ==
    res[r] = [age |-> Decoded(0), gender |-> Decoded(""), nationality |-> Decoded(<<>>)]

\* C12: when the three lookups succeed with empty data (age 0, empty gender,
\* empty country array) EnrichPerson returns the person exactly as it got it,
\* whatever its fields were, with no warning or error diagnostic and a nil
\* result, at the first call and at every further call on the same person.
C12_NoOpIdempotent ==
    \A r \in Reqs :
        (Returned(r) /\ EmptyAnswers(r)) =>
            /\ person[r] = entry[r]
            /\ log[r] = <<>>
            /\ ret[r] = "nil"

\* A further call on a person an earlier call gave age 34, gender "female" and
\* nationality "US" meets three empty answers and returns the person as is.
C12_Witness ==
    \E r \in Reqs :
        /\ Returned(r) /\ op[r] = "again"
        /\ EmptyAnswers(r)
        /\ entry[r].age = Ptr(34) /\ entry[r].gender = Ptr("female")
        /\ entry[r].nationality = Ptr("US")
        /\ person[r] = entry[r]
        /\ log[r] = <<>>

\* The enrichment fields a stored row has a value for.
Present(row) == {k \in Fields : row[k] # Nil}

\* C13: in every state of the store, whatever requests were made (creates,
\* updates and deletes; bodies that are not JSON or lack a name or a surname
\* included) and whatever the lookups answered, every stored person has a
\* non-empty name and a non-empty surname. (Each of the eight
\* subsets of age, gender and nationality is the Present set of a stored row
\* in some reachable state.)
C13_NameAndSurnamePresent ==
    \A row \in store :
        /\ row.name # ""
        /\ row.surname # ""

\* An update without a name has been answered 400 and the stored person, who
\* has an age and a nationality but no gender, still has name and surname.
C13_Witness ==
    \E r \in Reqs :
        /\ op[r] = "update" /\ pc[r] = "done" /\ status[r] = 400
        /\ body[r].syntax /\ body[r].name = ""
        /\ \E row \in Row(store, reqId[r]) :
              /\ Present(row) = {"age", "nationality"}
              /\ row.name # "" /\ row.surname # ""

\* Request r is a DeletePerson that has been answered 204.
Deleted(r) == op[r] = "delete" /\ pc[r] = "done" /\ status[r] = 204

\* C14: once a DeletePerson has been answered 204 for an id, the store holds
\* no row with that id, also when an UpdatePerson of the same id that read
\* the row before the delete saves after it.
C14_DeletedStaysDeleted ==
    \A r \in Reqs : Deleted(r) => Row(store, reqId[r]) = {}

====
